---- MODULE Spec2Model ----
(***************************************************************************)
(* Model of the car renderer of A/B Street (game/src/render/car.rs):       *)
(* DrawCar::new, the Renderable operations of DrawCar, and the colour      *)
(* scheme registry DrawCar::new reads and fills.                           *)
(*                                                                         *)
(* Distances are integers in 1/10000 of a metre, so that CAR_WIDTH / 4.0   *)
(* (0.4375 m) is exact.  Angles are degrees relative to the local heading. *)
(* Option<T> is a sequence of length 0 (None) or 1 (Some).                 *)
(***************************************************************************)
EXTENDS Integers, Sequences, FiniteSets, TLC

\* ---------------------------------------------------------------- bounds
MaxId == 1          \* agent indices are 0..MaxId
MaxShortLen == 6    \* short body paths: 0..MaxShortLen half-metres
LongLen == 20       \* a long body path of 10 m, in half-metres
MaxOn == 1          \* traversables a car can be on: 0..MaxOn

\* ------------------------------------------------------------- distances
Meter == 10000
HalfMeter == 5000

\* const CAR_WIDTH: Distance = Distance::const_meters(1.75)
CAR_WIDTH == 17500

None == <<>>
Some(x) == <<x>>
IsSome(o) == Len(o) = 1
Unwrap(o) == o[1]

\* ---------------------------------------------------------------- colours
\* A colour is a record: its definition (name), a palette index and the
\* fade factor in tenths (10 = not faded).
Color(n) == [name |-> n, idx |-> 0, fade |-> 10]

\* the registry's marker for "no such colour"
Absent == Color("absent")
\* a colour loaded into the registry from a user's colour scheme
Custom == Color("custom")
\* Color::hex("#DF8C3D"), Color::hex("#FF1300"), Color::rgb(50, 133, 117)
TurnArrowDefault == Color("#DF8C3D")
BrakeLightDefault == Color("#FF1300")
BusDefault == Color("rgb(50,133,117)")
\* Color::rgb(249, 206, 24), the label's colour
LabelColor == Color("rgb(249,206,24)")
LabelSize == 20

ColorNames == {"turn arrow", "brake light", "bus"}

\* the palette rotating_color_agents picks from
PaletteSize == 2

\* helpers::rotating_color_agents: a colour of a fixed palette chosen by the
\* agent's index alone
rotating_color_agents(idx) == [name |-> "rotating", idx |-> idx % PaletteSize, fade |-> 10]

\* Color::fade(factor), the factor in tenths
fade(c, factor) == [c EXCEPT !.fade = (c.fade * factor) \div 10]

\* ColorScheme::get_def(name, default): insert-if-absent, the first definition
\* of a name wins.  The registry after the call, and the colour returned.
get_def_cs(cs, name, default) ==
    IF cs[name] = Absent THEN [cs EXCEPT ![name] = default] ELSE cs

get_def(cs, name, default) ==
    IF cs[name] = Absent THEN default ELSE cs[name]

\* ColorScheme::get(name): a pure read, which fails on a name not registered
get_fails(cs, name) == cs[name] = Absent

get(cs, name) == cs[name]

\* ------------------------------------------------------------------- map
TurnTypes ==
    <<"Straight", "Left", "Right", "LaneChangeLeft", "LaneChangeRight",
      "Crosswalk", "SharedSidewalkCorner">>

TurnIDs == 1..Len(TurnTypes)

\* map.get_t(t).turn_type: the map holds one turn of each type
get_t(t) == [turn_type |-> TurnTypes[t]]

\* Traversable::get_zorder(map): the map's z-order of what the car is on
get_zorder_on(on) == on - 1

\* ----------------------------------------------------------------- input
VehicleTypes == {"Car", "Bus", "Bike"}
CarStatuses == {"Moving", "Parked"}
Labels == {"bus 43"}
BodyLengths == {k * HalfMeter : k \in (0..MaxShortLen) \cup {LongLen}}

\* sim::DrawCarInput; body is the path's length, all the model keeps of it
DrawCarInput ==
    [id : (0..MaxId) \X VehicleTypes,
     waiting_for_turn : {None} \cup {Some(t) : t \in TurnIDs},
     status : CarStatuses,
     on : 0..MaxOn,
     label : {None} \cup {Some(l) : l \in Labels},
     body : BodyLengths]

\* ------------------------------------------------------ geometry requests
\* The requests made to the body path: exact_slice(start, end) and
\* dist_along(d).
Slice(start, end) == [fn |-> "exact_slice", start |-> start, end |-> end]
Along(d) == [fn |-> "dist_along", start |-> d, end |-> d]

\* a request the path can answer: inside [0, len], a slice not empty
InRange(q, len) ==
    /\ 0 <= q.start
    /\ q.end <= len
    /\ IF q.fn = "exact_slice" THEN q.start < q.end ELSE q.start = q.end

\* dist_along(d): the point of the path at distance d, on the centerline
Pos(d) == [along |-> d, lateral |-> 0]

\* Pt2D::project_away(dist, angle.rotate_degs(degs)) for degs = 90 or -90: the
\* point moves sideways, to the +90 side (positive) or the -90 side
project_away(pt, dist, degs) ==
    [pt EXCEPT !.lateral = @ + (IF degs = 90 THEN dist ELSE 0 - dist)]

\* a shape: the part of the path it lies on, its width or thickness, and its
\* corner points
Shape(on, width, pts) == [path |-> on, width |-> width, pts |-> pts]

\* one element of a GeomBatch
Entry(kind, color, shape) == [kind |-> kind, color |-> color, shape |-> shape]

\* ------------------------------------------------------------ DrawCar::new
\* let front_corner = len - Distance::meters(1.0)
front_corner(input) == input.body - Meter

\* the requests the body polygon makes to the path
body_queries(input) ==
    {Slice(0, front_corner(input)), Along(front_corner(input)), Along(input.body)}

\* body_polygon with the nose as wide at the tip as at the front corner
body_polygon_square_nose(input) ==
    Shape(Slice(0, front_corner(input)), CAR_WIDTH,
          <<project_away(Pos(front_corner(input)), CAR_WIDTH \div 2, 90),
            project_away(Pos(front_corner(input)), CAR_WIDTH \div 2, -90),
            project_away(Pos(input.body), CAR_WIDTH \div 2, -90),
            project_away(Pos(input.body), CAR_WIDTH \div 2, 90)>>)

\* front.union(thick_line): the thick line over the slice and the 4 points of
\* the nose
body_polygon(input) ==
    Shape(Slice(0, front_corner(input)), CAR_WIDTH,
          <<project_away(Pos(front_corner(input)), CAR_WIDTH \div 2, 90),
            project_away(Pos(front_corner(input)), CAR_WIDTH \div 2, -90),
            project_away(Pos(input.body), CAR_WIDTH \div 4, -90),
            project_away(Pos(input.body), CAR_WIDTH \div 4, 90)>>)

\* zoomed_color_car with the status matched before the vehicle type
zoomed_color_car_status_first(input, cs) ==
    IF input.status = "Parked"
    THEN fade(rotating_color_agents(input.id[1]), 15)
    ELSE IF input.id[2] = "Bus"
         THEN get_def(cs, "bus", BusDefault)
         ELSE rotating_color_agents(input.id[1])

\* zoomed_color_car: the body's colour
zoomed_color_car(input, cs) ==
    IF input.id[2] = "Bus"
    THEN get_def(cs, "bus", BusDefault)
    ELSE IF input.status = "Moving"
         THEN rotating_color_agents(input.id[1])
         ELSE fade(rotating_color_agents(input.id[1]), 15)

\* zoomed_color_car: the registry it leaves
zoomed_color_car_cs(input, cs) ==
    IF input.id[2] = "Bus" THEN get_def_cs(cs, "bus", BusDefault) ELSE cs

\* draw_default.add_svg("assets/map/parked_car.svg", body_polygon.center(), ..)
parked_icon(input) ==
    Entry("assets/map/parked_car.svg", Absent, body_polygon(input))

\* body_batch with the parked icon added for every status
body_batch_icon_always(input, cs) ==
    <<Entry("body", zoomed_color_car(input, cs), body_polygon(input)),
      parked_icon(input)>>

\* the batch after the body and the parked icon are pushed
body_batch(input, cs) ==
    LET body == <<Entry("body", zoomed_color_car(input, cs), body_polygon(input))>>
    IN  IF input.status = "Parked" THEN Append(body, parked_icon(input)) ELSE body

\* let arrow_len = 0.8 * CAR_WIDTH; let arrow_thickness = Distance::meters(0.5)
arrow_len == (8 * CAR_WIDTH) \div 10
arrow_thickness == HalfMeter

\* where the turn arrow is anchored: length() - Distance::meters(2.5)
arrow_at(input) == input.body - 5 * HalfMeter

\* turn_arm with the Straight arm merged into the Left arm
turn_arm_straight_left(tt) ==
    CASE tt \in {"Left", "LaneChangeLeft", "Straight"} -> "left"
      [] tt \in {"Right", "LaneChangeRight"} -> "right"
      [] tt \in {"Crosswalk", "SharedSidewalkCorner"} -> "unreachable"

\* turn_arm with the pedestrian turn types merged into the Straight arm
turn_arm_crosswalk_straight(tt) ==
    CASE tt \in {"Left", "LaneChangeLeft"} -> "left"
      [] tt \in {"Right", "LaneChangeRight"} -> "right"
      [] tt \in {"Straight", "Crosswalk", "SharedSidewalkCorner"} -> "straight"

\* which arm of the match a turn type takes
turn_arm(tt) ==
    CASE tt \in {"Left", "LaneChangeLeft"} -> "left"
      [] tt \in {"Right", "LaneChangeRight"} -> "right"
      [] tt = "Straight" -> "straight"
      [] tt \in {"Crosswalk", "SharedSidewalkCorner"} -> "unreachable"

\* arrow_shape with the right arm pointing the way the left arm does
arrow_shape_unmirrored(input, arm) ==
    Shape(Along(arrow_at(input)), arrow_thickness,
          <<project_away(Pos(arrow_at(input)), arrow_len \div 2, 90),
            project_away(Pos(arrow_at(input)), arrow_len \div 2, -90)>>)

\* the arrow's polyline: from the first point to the second
arrow_shape(input, arm) ==
    Shape(Along(arrow_at(input)), arrow_thickness,
          IF arm = "left"
          THEN <<project_away(Pos(arrow_at(input)), arrow_len \div 2, 90),
                 project_away(Pos(arrow_at(input)), arrow_len \div 2, -90)>>
          ELSE <<project_away(Pos(arrow_at(input)), arrow_len \div 2, -90),
                 project_away(Pos(arrow_at(input)), arrow_len \div 2, 90)>>)

\* the colour of the arrow: cs.get_def in the left arm, cs.get in the right
arrow_color(cs, arm) ==
    IF arm = "left" THEN get_def(cs, "turn arrow", TurnArrowDefault)
    ELSE get(cs, "turn arrow")

\* let window_length_gap = Distance::meters(0.2);
\* let window_thickness = Distance::meters(0.3)
window_length_gap == 2000
window_thickness == 3000

\* thick_line_from_angle(thickness, line_length, pt, angle): the line from pt
\* to pt projected away by line_length
thick_line_from_angle(thickness, line_length, on, pt, degs) ==
    Shape(on, thickness, <<pt, project_away(pt, line_length, degs)>>)

\* the brake light, at dist_along(Distance::meters(0.5))
brake_light(cs) ==
    Entry("brake light", get_def(cs, "brake light", BrakeLightDefault),
          thick_line_from_angle(window_thickness,
                                CAR_WIDTH - window_length_gap * 2,
                                Along(HalfMeter),
                                project_away(Pos(HalfMeter),
                                             CAR_WIDTH \div 2 - window_length_gap, -90),
                                90))

\* label.map(|line| Text::from(Line(line).fg(Color::rgb(249, 206, 24)).size(20)))
label_text(input) ==
    IF IsSome(input.label)
    THEN Some([line |-> Unwrap(input.label), fg |-> LabelColor, size |-> LabelSize])
    ELSE None

\* the DrawCar value built from the input and the uploaded batch
DrawCarOf(input, batch) ==
    [id |-> input.id,
     body |-> input.body,
     body_polygon |-> body_polygon(input),
     zorder |-> get_zorder_on(input.on),
     label |-> label_text(input),
     draw_default |-> batch]

\* how a run of DrawCar::new ends: its outcome ("ok" or the failure), the
\* registry it leaves, the path requests it made, the batch it had built
Run(outcome, cs, queries, batch) ==
    [outcome |-> outcome, cs |-> cs, queries |-> queries, batch |-> batch]

\* a request outside the path fails when the geometry library is strict
Fails(strict, qs, len) == strict /\ \E q \in qs : ~InRange(q, len)

\* brake_stage with the brake light drawn only when an arrow was drawn
brake_stage_after_arrow(input, cs, qs, batch, strict) ==
    LET qs2 == qs \cup {Along(HalfMeter)}
    IN  IF Fails(strict, {Along(HalfMeter)}, input.body)
        THEN Run("geom", cs, qs2, batch)
        ELSE IF batch[Len(batch)].kind = "turn arrow"
        THEN Run("ok", get_def_cs(cs, "brake light", BrakeLightDefault), qs2,
                 Append(batch, brake_light(cs)))
        ELSE Run("ok", cs, qs2, batch)

\* lines 92-108: the brake light, after the match on the turn type
brake_stage(input, cs, qs, batch, strict) ==
    LET qs2 == qs \cup {Along(HalfMeter)}
    IN  IF Fails(strict, {Along(HalfMeter)}, input.body)
        THEN Run("geom", cs, qs2, batch)
        ELSE Run("ok", get_def_cs(cs, "brake light", BrakeLightDefault), qs2,
                 Append(batch, brake_light(cs)))

\* turn_stage with the left arm setting the colour instead of defining it
turn_stage_sets_color(input, cs, qs, batch, strict) ==
    LET arm == turn_arm(get_t(Unwrap(input.waiting_for_turn)).turn_type)
        qs2 == qs \cup {Along(arrow_at(input))}
    IN  CASE arm = "left" ->
               IF Fails(strict, {Along(arrow_at(input))}, input.body)
               THEN Run("geom", cs, qs2, batch)
               ELSE brake_stage(input,
                                [cs EXCEPT !["turn arrow"] = TurnArrowDefault], qs2,
                                Append(batch, Entry("turn arrow", TurnArrowDefault,
                                                    arrow_shape(input, arm))),
                                strict)
          [] arm = "right" ->
               IF Fails(strict, {Along(arrow_at(input))}, input.body)
               THEN Run("geom", cs, qs2, batch)
               ELSE IF get_fails(cs, "turn arrow")
               THEN Run("missing color", cs, qs2, batch)
               ELSE brake_stage(input, cs, qs2,
                                Append(batch, Entry("turn arrow", arrow_color(cs, arm),
                                                    arrow_shape(input, arm))),
                                strict)
          [] arm = "straight" -> brake_stage(input, cs, qs, batch, strict)
          [] arm = "unreachable" -> Run("unreachable", cs, qs, batch)

\* lines 56-90: the match on the pending turn's type
turn_stage(input, cs, qs, batch, strict) ==
    LET arm == turn_arm(get_t(Unwrap(input.waiting_for_turn)).turn_type)
        qs2 == qs \cup {Along(arrow_at(input))}
    IN  CASE arm = "left" ->
               IF Fails(strict, {Along(arrow_at(input))}, input.body)
               THEN Run("geom", cs, qs2, batch)
               ELSE brake_stage(input,
                                get_def_cs(cs, "turn arrow", TurnArrowDefault), qs2,
                                Append(batch, Entry("turn arrow", arrow_color(cs, arm),
                                                    arrow_shape(input, arm))),
                                strict)
          [] arm = "right" ->
               IF Fails(strict, {Along(arrow_at(input))}, input.body)
               THEN Run("geom", cs, qs2, batch)
               ELSE IF get_fails(cs, "turn arrow")
               THEN Run("missing color", cs, qs2, batch)
               ELSE brake_stage(input, cs, qs2,
                                Append(batch, Entry("turn arrow", arrow_color(cs, arm),
                                                    arrow_shape(input, arm))),
                                strict)
          [] arm = "straight" -> brake_stage(input, cs, qs, batch, strict)
          [] arm = "unreachable" -> Run("unreachable", cs, qs, batch)

\* DrawCar::new up to the upload
new_run(input, cs, strict) ==
    IF Fails(strict, body_queries(input), input.body)
    THEN Run("geom", cs, body_queries(input), <<>>)
    ELSE IF IsSome(input.waiting_for_turn)
         THEN turn_stage(input, zoomed_color_car_cs(input, cs), body_queries(input),
                         body_batch(input, cs), strict)
         ELSE Run("ok", zoomed_color_car_cs(input, cs), body_queries(input),
                  body_batch(input, cs))

\* ------------------------------------------------- Renderable for DrawCar
\* ID::Car(self.id)
get_id(c) == [variant |-> "Car", id |-> c.id]

\* DrawOptions: the ids given an override colour, and that colour
DrawOptions(ids) == [override_colors |-> ids, color |-> Color("override")]

\* opts.color(id)
opts_color(opts, id) ==
    IF id \in opts.override_colors THEN Some(opts.color) ELSE None

\* one drawing command issued to the GfxCtx
DrawCall(call, color, what) == [call |-> call, color |-> color, what |-> what]

\* draw, lines 131-135: the overridden body, or the default batch
draw_body(c, opts) ==
    IF IsSome(opts_color(opts, get_id(c)))
    THEN <<DrawCall("draw_polygon", Unwrap(opts_color(opts, get_id(c))),
                    <<Entry("body", Unwrap(opts_color(opts, get_id(c))), c.body_polygon)>>)>>
    ELSE <<DrawCall("redraw", Absent, c.draw_default)>>

\* where draw puts the label: self.body.dist_along(Distance::meters(9.0))
label_at == 18 * HalfMeter

\* draw, lines 137-141: the requests the label makes to the path
draw_queries(c) == IF IsSome(c.label) THEN {Along(label_at)} ELSE {}

\* draw, lines 137-141: the label's drawing command
draw_label(c) ==
    IF IsSome(c.label)
    THEN <<DrawCall("draw_text_at_mapspace", Unwrap(c.label).fg,
                    <<Entry(Unwrap(c.label).line, Unwrap(c.label).fg,
                            Shape(Along(label_at), Unwrap(c.label).size, <<Pos(label_at)>>))>>)>>
    ELSE <<>>

\* self.body.to_thick_boundary(CAR_WIDTH, OUTLINE_THICKNESS): the boundary of
\* the whole path thickened, or nothing when the geometry is degenerate
to_thick_boundary(c, degenerate) ==
    IF degenerate THEN None ELSE Some(Shape(Slice(0, c.body), CAR_WIDTH, <<>>))

\* get_outline returning the body polygon whatever to_thick_boundary answers
get_outline_always_body(c, degenerate) == c.body_polygon

\* get_outline: the thick boundary, or the body polygon when there is none
get_outline(c, degenerate) ==
    IF IsSome(to_thick_boundary(c, degenerate))
    THEN Unwrap(to_thick_boundary(c, degenerate))
    ELSE c.body_polygon

\* Polygon::contains_pt for a point given by its distance along the path and
\* its distance to the side of it: inside the thick line or inside the nose
polygon_contains_pt(poly, pt) ==
    LET side == IF pt.lateral < 0 THEN 0 - pt.lateral ELSE pt.lateral
        x1 == poly.pts[1].along
        x2 == poly.pts[4].along
        h1 == poly.pts[1].lateral
        h2 == poly.pts[4].lateral
    IN  \/ /\ poly.path.start <= pt.along
           /\ pt.along <= poly.path.end
           /\ 2 * side <= poly.width
        \/ /\ x1 <= pt.along
           /\ pt.along <= x2
           /\ side * (x2 - x1) <= h1 * (x2 - x1) - (h1 - h2) * (pt.along - x1)

\* the points hit-testing is tried with
Points ==
    {[along |-> a * HalfMeter, lateral |-> l * HalfMeter] :
        a \in {0, MaxShortLen, LongLen}, l \in {-2, 1}}

\* ------------------------------------------------------------------ state
VARIABLES
    cs,        \* the ColorScheme: colour name -> colour, or Absent
    car,       \* Option<DrawCar>: the DrawCar that is alive
    input,     \* Option<DrawCarInput>: the input it was built from
    op,        \* the operation that ran last
    outcome,   \* how it ended: "ok", or the failure that ended the process
    queries,   \* the requests it made to the body path
    uploaded,  \* Option<GeomBatch>: what it uploaded through the Prerender
    g,         \* the drawing commands it issued to the GfxCtx
    ret,       \* Option: what it returned, when that is not a DrawCar
    arg        \* Option: what it was given: the DrawOptions of draw, the point
               \* of contains_pt, to_thick_boundary's answer to get_outline

car_vars == <<cs, car, input, op, outcome, queries, uploaded, g, ret, arg>>

\* the state of a cutscene (cutscene.rs)
VARIABLES
    scenes,      \* CutsceneBuilder.scenes / CutscenePlayer.scenes: the layouts
    idx,         \* CutscenePlayer.idx
    composite,   \* Option<Composite>: the panel on display
    window,      \* the size of the window, as the EventCtx knows it
    clicked,     \* Option: the button composite.event reported to the last event
    resized,     \* ctx.input.is_window_resized() in the last event
    transition,  \* Option<Transition>: what the last event returned
    stage        \* "builder", "player", "popped" or "panic"; "none" without one

cutscene_vars == <<scenes, idx, composite, window, clicked, resized, transition, stage>>

\* the state of the game (editor/src/game.rs)
VARIABLES
    mode,               \* GameState.mode: the variant of Mode
    wizard,             \* Option<Wizard>: the Wizard of Mode::SplashScreen
    maybe_screensaver,  \* Option<(Screensaver, XorShiftRng)> of Mode::SplashScreen
    map,                \* ui.state.primary.map.get_name()
    handled,            \* what the last event did
    calls               \* the calls made to leave the process, in order

game_vars == <<mode, wizard, maybe_screensaver, map, handled, calls>>

vars == <<car_vars, cutscene_vars, game_vars>>

\* no DrawCar, and a registry with nothing registered
NoCar ==
    /\ cs = [n \in ColorNames |-> Absent]
    /\ car = None
    /\ input = None
    /\ op = "init"
    /\ outcome = "ok"
    /\ queries = {}
    /\ uploaded = None
    /\ g = <<>>
    /\ ret = None
    /\ arg = None

\* no cutscene
NoCutscene ==
    /\ scenes = <<>>
    /\ idx = 0
    /\ composite = None
    /\ window = "small"
    /\ clicked = None
    /\ resized = FALSE
    /\ transition = None
    /\ stage = "none"

\* no game
NoGame ==
    /\ mode = "none"
    /\ wizard = None
    /\ maybe_screensaver = None
    /\ map = "none"
    /\ handled = "none"
    /\ calls = <<>>

Failures == {"geom", "missing color", "unreachable"}

\* the process is alive: no operation has failed
Alive == outcome \notin Failures

\* the registry starts empty, or loaded from a colour scheme that defines
\* every name
Init ==
    /\ cs \in {[n \in ColorNames |-> Absent], [n \in ColorNames |-> Custom]}
    /\ car = None
    /\ input = None
    /\ op = "init"
    /\ outcome = "ok"
    /\ queries = {}
    /\ uploaded = None
    /\ g = <<>>
    /\ ret = None
    /\ arg = None
    /\ NoCutscene
    /\ NoGame

\* DrawCar::new(input, map, prerender, cs) for any input; strict tells whether
\* the geometry library fails on a request outside the path
New ==
    /\ Alive
    /\ car = None
    /\ \E in \in DrawCarInput, strict \in BOOLEAN :
          LET r == new_run(in, cs, strict)
          IN  /\ input' = Some(in)
              /\ op' = "new"
              /\ outcome' = r.outcome
              /\ cs' = r.cs
              /\ queries' = r.queries
              /\ car' = IF r.outcome = "ok" THEN Some(DrawCarOf(in, r.batch)) ELSE None
              /\ uploaded' = IF r.outcome = "ok" THEN Some(r.batch) ELSE None
              /\ g' = <<>>
              /\ ret' = None
              /\ arg' = None
    /\ UNCHANGED <<cutscene_vars, game_vars>>

\* the draw options tried on a car: no override, an override for this car,
\* an override for another object
DrawOptionsTried(c) ==
    {DrawOptions({}), DrawOptions({get_id(c)}),
     DrawOptions({[variant |-> "Lane", id |-> c.id]})}

\* draw taking the label out of the DrawCar when it draws it
Draw_takes_label(strict) ==
    /\ Alive
    /\ IsSome(car)
    /\ op' = "draw"
    /\ queries' = draw_queries(Unwrap(car))
    /\ \E opts \in DrawOptionsTried(Unwrap(car)) :
          /\ arg' = Some(opts)
          /\ IF Fails(strict, draw_queries(Unwrap(car)), Unwrap(car).body)
             THEN /\ outcome' = "geom"
                  /\ g' = draw_body(Unwrap(car), opts)
             ELSE /\ outcome' = "ok"
                  /\ g' = draw_body(Unwrap(car), opts) \o draw_label(Unwrap(car))
    /\ ret' = None
    /\ uploaded' = None
    /\ car' = Some([Unwrap(car) EXCEPT !.label = None])
    /\ UNCHANGED <<cs, input>>
    /\ UNCHANGED <<cutscene_vars, game_vars>>

\* DrawCar::draw(g, opts, ctx)
Draw(strict) ==
    /\ Alive
    /\ IsSome(car)
    /\ op' = "draw"
    /\ queries' = draw_queries(Unwrap(car))
    /\ \E opts \in DrawOptionsTried(Unwrap(car)) :
          /\ arg' = Some(opts)
          /\ IF Fails(strict, draw_queries(Unwrap(car)), Unwrap(car).body)
             THEN /\ outcome' = "geom"
                  /\ g' = draw_body(Unwrap(car), opts)
             ELSE /\ outcome' = "ok"
                  /\ g' = draw_body(Unwrap(car), opts) \o draw_label(Unwrap(car))
    /\ ret' = None
    /\ uploaded' = None
    /\ UNCHANGED <<cs, car, input>>
    /\ UNCHANGED <<cutscene_vars, game_vars>>

\* DrawCar::get_outline(map); degenerate tells whether to_thick_boundary
\* finds the path's geometry degenerate
GetOutline(degenerate) ==
    /\ Alive
    /\ IsSome(car)
    /\ op' = "get_outline"
    /\ outcome' = "ok"
    /\ ret' = Some(get_outline(Unwrap(car), degenerate))
    /\ arg' = Some(to_thick_boundary(Unwrap(car), degenerate))
    /\ queries' = {}
    /\ uploaded' = None
    /\ g' = <<>>
    /\ UNCHANGED <<cs, car, input>>
    /\ UNCHANGED <<cutscene_vars, game_vars>>

\* DrawCar::contains_pt(pt, map)
ContainsPt(pt) ==
    /\ Alive
    /\ IsSome(car)
    /\ op' = "contains_pt"
    /\ outcome' = "ok"
    /\ ret' = Some(polygon_contains_pt(Unwrap(car).body_polygon, pt))
    /\ arg' = Some(pt)
    /\ queries' = {}
    /\ uploaded' = None
    /\ g' = <<>>
    /\ UNCHANGED <<cs, car, input>>
    /\ UNCHANGED <<cutscene_vars, game_vars>>

\* DrawCar::get_zorder()
GetZorder ==
    /\ Alive
    /\ IsSome(car)
    /\ op' = "get_zorder"
    /\ outcome' = "ok"
    /\ ret' = Some(Unwrap(car).zorder)
    /\ arg' = None
    /\ queries' = {}
    /\ uploaded' = None
    /\ g' = <<>>
    /\ UNCHANGED <<cs, car, input>>
    /\ UNCHANGED <<cutscene_vars, game_vars>>

\* DrawCar::get_id()
GetId ==
    /\ Alive
    /\ IsSome(car)
    /\ op' = "get_id"
    /\ outcome' = "ok"
    /\ ret' = Some(get_id(Unwrap(car)))
    /\ arg' = None
    /\ queries' = {}
    /\ uploaded' = None
    /\ g' = <<>>
    /\ UNCHANGED <<cs, car, input>>
    /\ UNCHANGED <<cutscene_vars, game_vars>>

\* the DrawCar is dropped at the end of the frame it was built for
Drop ==
    /\ Alive
    /\ IsSome(car)
    /\ car' = None
    /\ input' = None
    /\ op' = "drop"
    /\ outcome' = "ok"
    /\ queries' = {}
    /\ uploaded' = None
    /\ g' = <<>>
    /\ ret' = None
    /\ arg' = None
    /\ UNCHANGED cs
    /\ UNCHANGED <<cutscene_vars, game_vars>>

Next ==
    \/ New
    \/ \E strict \in BOOLEAN : Draw(strict)
    \/ \E degenerate \in BOOLEAN : GetOutline(degenerate)
    \/ \E pt \in Points : ContainsPt(pt)
    \/ GetZorder
    \/ GetId
    \/ Drop

Spec == Init /\ [][Next]_vars

\* ----------------------------------------------------------------- claims
\* a DrawCar::new that completed: the car is alive, built from input
Built == IsSome(car) /\ IsSome(input)

\* the type of the input's pending turn
PendingTurnType == get_t(Unwrap(Unwrap(input).waiting_for_turn)).turn_type

\* the number of elements of a kind in a batch
Count(batch, kind) == Cardinality({i \in DOMAIN batch : batch[i].kind = kind})

ArrowTurnTypes == {"Left", "Right", "LaneChangeLeft", "LaneChangeRight"}

\* C1: whenever DrawCar::new completes, the default batch holds exactly one
\* turn arrow if a turn is pending and its type is Left, Right,
\* LaneChangeLeft or LaneChangeRight, and no turn arrow otherwise (no pending
\* turn, or Straight).
C1_TurnArrowIff ==
    Built =>
        Count(Unwrap(car).draw_default, "turn arrow") =
            IF /\ IsSome(Unwrap(input).waiting_for_turn)
               /\ PendingTurnType \in ArrowTurnTypes
            THEN 1 ELSE 0

C1_Witness ==
    /\ Built
    /\ op = "new"
    /\ IsSome(Unwrap(input).waiting_for_turn)
    /\ PendingTurnType = "LaneChangeRight"
    /\ Count(Unwrap(car).draw_default, "turn arrow") = 1

\* C2: whenever DrawCar::new completes, the batch holds exactly one brake
\* light if a turn is pending, whatever its type, the status and the vehicle
\* type, and no brake light if no turn is pending.
C2_BrakeLightIff ==
    Built =>
        Count(Unwrap(car).draw_default, "brake light") =
            IF IsSome(Unwrap(input).waiting_for_turn) THEN 1 ELSE 0

C2_Witness ==
    /\ Built
    /\ op = "new"
    /\ IsSome(Unwrap(input).waiting_for_turn)
    /\ PendingTurnType = "Straight"
    /\ Unwrap(input).status = "Parked"
    /\ Unwrap(input).id[2] = "Bus"
    /\ Count(Unwrap(car).draw_default, "brake light") = 1

\* C3: DrawCar::new with a pending turn of type Crosswalk or
\* SharedSidewalkCorner never returns: it ends in a failure, no DrawCar is
\* produced and no batch is uploaded; the failure is the unreachable!() of the
\* match unless the body path's geometry already failed before it.
C3_PedestrianTurnFails ==
    (/\ op = "new"
     /\ IsSome(Unwrap(input).waiting_for_turn)
     /\ PendingTurnType \in {"Crosswalk", "SharedSidewalkCorner"})
    => /\ outcome \in {"unreachable", "geom"}
       /\ outcome = "geom" =>
              \E q \in body_queries(Unwrap(input)) : ~InRange(q, Unwrap(input).body)
       /\ car = None
       /\ uploaded = None

C3_Witness ==
    /\ op = "new"
    /\ IsSome(Unwrap(input).waiting_for_turn)
    /\ PendingTurnType = "SharedSidewalkCorner"
    /\ Unwrap(input).body = LongLen * HalfMeter
    /\ outcome = "unreachable"

\* the parked-car icons of a batch are centered on this polygon
IconsCenteredOn(batch, polygon) ==
    \A i \in DOMAIN batch :
        batch[i].kind = "assets/map/parked_car.svg" => batch[i].shape = polygon

\* the colour of the body pushed first into a batch
BodyColor(batch) == batch[1].color

\* C4 as stated: whenever DrawCar::new completes for a Parked input of any
\* vehicle type, the batch holds exactly one parked-car icon centered on the
\* body polygon and the body's colour is the colour the same car gets when
\* Moving, faded by 1.5; for Moving there is no icon.
C4_Original ==
    Built =>
        IF Unwrap(input).status = "Parked"
        THEN /\ Count(Unwrap(car).draw_default, "assets/map/parked_car.svg") = 1
             /\ IconsCenteredOn(Unwrap(car).draw_default, Unwrap(car).body_polygon)
             /\ BodyColor(Unwrap(car).draw_default) =
                    IF Unwrap(input).id[2] = "Bus"
                    THEN [cs["bus"] EXCEPT !.fade = 15]
                    ELSE [name |-> "rotating",
                          idx |-> Unwrap(input).id[1] % PaletteSize, fade |-> 15]
        ELSE Count(Unwrap(car).draw_default, "assets/map/parked_car.svg") = 0

\* C4 amended: whenever DrawCar::new completes for a Parked input, the batch
\* holds exactly one parked-car icon centered on the body polygon; the body's
\* colour is the rotating colour of the id faded by 1.5 unless the vehicle is
\* a bus, which keeps the registered 'bus' colour unfaded; for Moving there is
\* no icon.
C4_ParkedIconAndFade ==
    Built =>
        IF Unwrap(input).status = "Parked"
        THEN /\ Count(Unwrap(car).draw_default, "assets/map/parked_car.svg") = 1
             /\ IconsCenteredOn(Unwrap(car).draw_default, Unwrap(car).body_polygon)
             /\ BodyColor(Unwrap(car).draw_default) =
                    IF Unwrap(input).id[2] = "Bus"
                    THEN cs["bus"]
                    ELSE [name |-> "rotating",
                          idx |-> Unwrap(input).id[1] % PaletteSize, fade |-> 15]
        ELSE Count(Unwrap(car).draw_default, "assets/map/parked_car.svg") = 0

C4_Witness ==
    /\ Built
    /\ op = "new"
    /\ Unwrap(input).status = "Parked"
    /\ Unwrap(input).id[2] = "Bike"
    /\ Count(Unwrap(car).draw_default, "assets/map/parked_car.svg") = 1
    /\ BodyColor(Unwrap(car).draw_default).fade = 15

\* C5: whenever DrawCar::new completes, the body's colour is: for a bus the
\* one registered 'bus' colour, whatever the id and the status; for any other
\* vehicle the palette colour chosen by the agent's index alone, not faded
\* when Moving and faded by 1.5 when Parked.
C5_BodyColor ==
    Built =>
        /\ Unwrap(car).draw_default[1].kind = "body"
        /\ BodyColor(Unwrap(car).draw_default) =
               IF Unwrap(input).id[2] = "Bus"
               THEN cs["bus"]
               ELSE [name |-> "rotating",
                     idx |-> Unwrap(input).id[1] % PaletteSize,
                     fade |-> IF Unwrap(input).status = "Moving" THEN 10 ELSE 15]
        /\ Unwrap(input).id[2] = "Bus" => cs["bus"] \in {BusDefault, Custom}

C5_Witness ==
    /\ Built
    /\ op = "new"
    /\ Unwrap(input).id = <<MaxId, "Bus">>
    /\ Unwrap(input).status = "Parked"
    /\ BodyColor(Unwrap(car).draw_default) = BusDefault

\* C6 as stated: for a body path shorter than 1.0 m (length 0 included)
\* DrawCar::new does not fail on the path's geometry, and the slice it asks
\* the path for is clamped to [0, len]: its end is never negative.
C6_ShortPathClamped ==
    (op = "new" /\ Unwrap(input).body < Meter)
    => /\ outcome # "geom"
       /\ \A q \in queries :
              q.fn = "exact_slice" => 0 <= q.end /\ q.end <= Unwrap(input).body

\* C8: the registry is insert-only and the first definition of a name wins:
\* no step removes or changes a registered colour, and a DrawCar::new that
\* completed leaves a registry that building the same input again would not
\* change.
C8_RegistryInsertOnly ==
    [][/\ \A n \in ColorNames : cs[n] # Absent => cs'[n] = cs[n]
       /\ (op' = "new" /\ outcome' = "ok")
          => \A strict \in BOOLEAN : new_run(Unwrap(input'), cs', strict).cs = cs']_vars

C8_Witness ==
    /\ Built
    /\ op = "new"
    /\ IsSome(Unwrap(input).waiting_for_turn)
    /\ PendingTurnType = "Left"
    /\ Unwrap(input).id[2] = "Bus"
    /\ cs["turn arrow"] = Custom
    /\ Unwrap(car).draw_default[2].color = Custom

Observers == {"draw", "get_outline", "contains_pt", "get_zorder", "get_id"}

\* C10: draw, get_outline, contains_pt, get_zorder and get_id change no field
\* of the DrawCar and leave the registry as it is, and upload nothing; of the
\* shared state only the registry is changed, and only by DrawCar::new.
C10_NoCrossFrameState ==
    [][/\ op' \in Observers => car' = car /\ cs' = cs /\ input' = input /\ uploaded' = None
       /\ cs' # cs => op' = "new"]_vars

C10_Witness ==
    /\ op = "draw"
    /\ outcome = "ok"
    /\ IsSome(car)
    /\ IsSome(Unwrap(car).label)
    /\ Len(g) = 2
    /\ g[1].call = "draw_polygon"

\* C11: get_outline never fails: when to_thick_boundary gives nothing it
\* returns exactly the body polygon stored at build time, and when it gives a
\* boundary it returns that boundary; contains_pt always answers for the
\* filled body polygon, whatever get_outline returned before.
C11_OutlineFallback ==
    /\ op = "get_outline" =>
          /\ outcome = "ok"
          /\ ret = IF Unwrap(arg) = None
                   THEN Some(body_polygon(Unwrap(input)))
                   ELSE Unwrap(arg)
          /\ Unwrap(arg) # None =>
                 Unwrap(ret) = Shape(Slice(0, Unwrap(input).body), CAR_WIDTH, <<>>)
    /\ op = "contains_pt" =>
          /\ outcome = "ok"
          /\ ret = Some(polygon_contains_pt(body_polygon(Unwrap(input)), Unwrap(arg)))

C11_Witness ==
    /\ op = "get_outline"
    /\ arg = Some(None)
    /\ Unwrap(input).body = LongLen * HalfMeter
    /\ Len(Unwrap(ret).pts) = 4
    /\ ret = Some(Unwrap(car).body_polygon)

\* C12: whenever DrawCar::new completes for a body path of length len >= 1.0 m,
\* the body polygon is the thick line of width 1.75 m over the slice
\* [0, len - 1.0] together with the nose of 4 points, in this order: at
\* len - 1.0 offset by 0.875 m to the +90 side and to the -90 side, at len
\* offset by 0.4375 m to the -90 side and to the +90 side; it is the first
\* element of the batch.
C12_BodyConstruction ==
    (Built /\ Unwrap(input).body >= Meter) =>
        /\ Unwrap(car).body_polygon =
               [path  |-> [fn |-> "exact_slice", start |-> 0,
                           end |-> Unwrap(input).body - 10000],
                width |-> 17500,
                pts   |-> << [along |-> Unwrap(input).body - 10000, lateral |-> 8750],
                             [along |-> Unwrap(input).body - 10000, lateral |-> -8750],
                             [along |-> Unwrap(input).body, lateral |-> -4375],
                             [along |-> Unwrap(input).body, lateral |-> 4375] >>]
        /\ Unwrap(car).draw_default[1].shape = Unwrap(car).body_polygon

C12_Witness ==
    /\ Built
    /\ op = "new"
    /\ Unwrap(input).body = 2 * HalfMeter
    /\ Unwrap(car).body_polygon.path.end = 0
    /\ Unwrap(car).body_polygon.pts[3].lateral = -4375

\* the turn arrows of a batch
Arrows(batch) == {i \in DOMAIN batch : batch[i].kind = "turn arrow"}

\* C13: whenever DrawCar::new completes, every turn arrow of the batch is
\* anchored 2.5 m before the path's end, has thickness 0.5 m and length
\* 0.8 * 1.75 m across the path, runs from the +90 side to the -90 side for
\* Left and LaneChangeLeft and from the -90 side to the +90 side for Right and
\* LaneChangeRight, and has the registered 'turn arrow' colour.
C13_ArrowGeometry ==
    Built =>
        \A i \in Arrows(Unwrap(car).draw_default) :
            LET a == Unwrap(car).draw_default[i]
                at == Unwrap(input).body - 25000
                left == PendingTurnType \in {"Left", "LaneChangeLeft"}
            IN  /\ PendingTurnType \in ArrowTurnTypes
                /\ a.shape.path = [fn |-> "dist_along", start |-> at, end |-> at]
                /\ a.shape.width = 5000
                /\ a.shape.pts =
                       << [along |-> at, lateral |-> IF left THEN 7000 ELSE -7000],
                          [along |-> at, lateral |-> IF left THEN -7000 ELSE 7000] >>
                /\ a.color = cs["turn arrow"]
                /\ a.color # Absent

C13_Witness ==
    /\ Built
    /\ op = "new"
    /\ IsSome(Unwrap(input).waiting_for_turn)
    /\ PendingTurnType = "Right"
    /\ Arrows(Unwrap(car).draw_default) # {}
    /\ \A i \in Arrows(Unwrap(car).draw_default) :
           Unwrap(car).draw_default[i].shape.pts[1].lateral = -7000

\* C14 as stated: when the registry started with none of the three names
\* registered, no DrawCar::new ends in a failed colour lookup, whatever was
\* built before it; a Right or LaneChangeRight build succeeds although no
\* Left or LaneChangeLeft car registered 'turn arrow' before.
C14_LookupsSucceed ==
    (op = "new" /\ \A n \in ColorNames : cs[n] # Custom)
    => outcome # "missing color"

C16_QueriesInRange ==
    op \in {"new", "draw"} =>
        \A q \in queries : 0 <= q.start /\ q.end <= Unwrap(input).body

\* =============================================================== cutscene
\* the most scenes a cutscene is built with
MaxScenes == 3

\* enum Layout; Extra carries the name of a character
Layouts == {"PlayerSpeaking", "BossSpeaking", "Extra"}

\* the sizes the window takes
WindowSizes == {"small", "large"}

\* usize::MAX, written as the signed value of the same bits
UsizeMax == 0 - 1

\* idx -= 1 on a usize in a build without overflow checks
wrapping_sub(i) == IF i = 0 THEN UsizeMax ELSE i - 1

\* scenes[idx] is out of bounds
index_panics(sc, i) == i < 0 \/ i >= Len(sc)

\* make_panel: the buttons of the panel, lines 161-173, 184-192, 224-234, 239-246
panel_buttons(sc, i) ==
    IF i = Len(sc)
    THEN {"quit", "Start"}
    ELSE {"quit", "next", "Skip cutscene"} \cup (IF i > 0 THEN {"back"} ELSE {})

\* make_panel: what the inner column shows, lines 184-237
panel_inner(sc, i) ==
    IF i = Len(sc) THEN "task" ELSE sc[i + 1]

\* make_panel fails: it indexes scenes[idx] unless idx == scenes.len()
make_panel_panics(sc, i) == i # Len(sc) /\ index_panics(sc, i)

\* make_panel with the back and next buttons in the task panel too
make_panel_task_with_row(sc, i, w) ==
    [buttons |-> panel_buttons(sc, i) \cup
                     (IF i = Len(sc)
                      THEN {"next"} \cup (IF i > 0 THEN {"back"} ELSE {})
                      ELSE {}),
     inner   |-> panel_inner(sc, i),
     idx     |-> i,
     window  |-> w]

\* make_panel with the back button built for every idx
make_panel_back_always(sc, i, w) ==
    [buttons |-> panel_buttons(sc, i) \cup (IF i # Len(sc) THEN {"back"} ELSE {}),
     inner   |-> panel_inner(sc, i),
     idx     |-> i,
     window  |-> w]

\* make_panel(ctx, app, name, scenes, make_task, idx): the Composite, laid
\* out for the window's size
make_panel(sc, i, w) ==
    [buttons |-> panel_buttons(sc, i),
     inner   |-> panel_inner(sc, i),
     idx     |-> i,
     window  |-> w]

\* a CutsceneBuilder was made by CutsceneBuilder::new, in a window of any size
CutsceneInit ==
    /\ scenes = <<>>
    /\ idx = 0
    /\ composite = None
    /\ window \in WindowSizes
    /\ clicked = None
    /\ resized = FALSE
    /\ transition = None
    /\ stage = "builder"
    /\ NoCar
    /\ NoGame

\* self.scenes.push(Scene { layout, msg })
push(sc, layout) == Append(sc, layout)

\* CutsceneBuilder::player
player ==
    /\ stage = "builder"
    /\ Len(scenes) < MaxScenes
    /\ scenes' = push(scenes, "PlayerSpeaking")
    /\ UNCHANGED <<idx, composite, window, clicked, resized, transition, stage>>
    /\ UNCHANGED <<car_vars, game_vars>>

\* CutsceneBuilder::boss
boss ==
    /\ stage = "builder"
    /\ Len(scenes) < MaxScenes
    /\ scenes' = push(scenes, "BossSpeaking")
    /\ UNCHANGED <<idx, composite, window, clicked, resized, transition, stage>>
    /\ UNCHANGED <<car_vars, game_vars>>

\* CutsceneBuilder::extra
extra ==
    /\ stage = "builder"
    /\ Len(scenes) < MaxScenes
    /\ scenes' = push(scenes, "Extra")
    /\ UNCHANGED <<idx, composite, window, clicked, resized, transition, stage>>
    /\ UNCHANGED <<car_vars, game_vars>>

\* CutsceneBuilder::build
build ==
    /\ stage = "builder"
    /\ idx' = 0
    /\ IF make_panel_panics(scenes, 0)
       THEN stage' = "panic" /\ composite' = None
       ELSE stage' = "player" /\ composite' = Some(make_panel(scenes, 0, window))
    /\ UNCHANGED <<scenes, window, clicked, resized, transition>>
    /\ UNCHANGED <<car_vars, game_vars>>

\* idx_after with the next arm going to the end as the Skip cutscene arm does
idx_after_next_skips(sc, i, x) ==
    CASE x = "back" -> wrapping_sub(i)
      [] x = "next" -> Len(sc)
      [] x = "Skip cutscene" -> Len(sc)

\* the idx a click leaves: lines 87-88, 98-99, 109-110
idx_after(sc, i, x) ==
    CASE x = "back" -> wrapping_sub(i)
      [] x = "next" -> i + 1
      [] x = "Skip cutscene" -> Len(sc)

\* CutscenePlayer::event: x is what composite.event reports, a click on a
\* button of the panel or nothing; w is the size of the window now
event(x, w) ==
    /\ stage = "player"
    /\ x \in {None} \cup {Some(b) : b \in Unwrap(composite).buttons}
    /\ clicked' = x
    /\ resized' = (w # window)
    /\ window' = w
    /\ IF x \in {Some("quit"), Some("Start")}
       THEN /\ transition' = Some("Pop")
            /\ stage' = "popped"
            /\ UNCHANGED <<idx, composite>>
       ELSE IF x = None
       THEN /\ transition' = Some("Keep")
            /\ composite' = IF w # window THEN Some(make_panel(scenes, idx, w))
                            ELSE composite
            /\ UNCHANGED <<idx, stage>>
       ELSE IF x = Some("back") /\ idx = 0
       THEN /\ transition' = None
            /\ stage' = "panic"
            /\ idx' \in {idx, wrapping_sub(idx)}
            /\ UNCHANGED composite
       ELSE IF make_panel_panics(scenes, idx_after(scenes, idx, Unwrap(x)))
       THEN /\ transition' = None
            /\ stage' = "panic"
            /\ idx' = idx_after(scenes, idx, Unwrap(x))
            /\ UNCHANGED composite
       ELSE /\ transition' = Some("Keep")
            /\ idx' = idx_after(scenes, idx, Unwrap(x))
            /\ composite' = Some(make_panel(scenes, idx', w))
            /\ UNCHANGED stage
    /\ UNCHANGED scenes
    /\ UNCHANGED <<car_vars, game_vars>>

\* every name a button of a panel can have
Buttons == {"quit", "back", "next", "Skip cutscene", "Start"}

CutsceneNext ==
    \/ player
    \/ boss
    \/ extra
    \/ build
    \/ \E x \in {None} \cup {Some(b) : b \in Buttons}, w \in WindowSizes : event(x, w)

CutsceneSpec == CutsceneInit /\ [][CutsceneNext]_vars

\* C17: in a CutscenePlayer, after any clicks on buttons of the panel on
\* display and any resizes, 0 <= idx <= scenes.len(); the panel has a 'back'
\* button only when idx > 0 and 'next' and 'Skip cutscene' buttons only when
\* idx < scenes.len(); so idx never underflows, scenes[idx] is never indexed
\* out of bounds, and no event or build panics.
C17_IdxInRange ==
    /\ stage # "panic"
    /\ stage \in {"player", "popped"} => 0 <= idx /\ idx <= Len(scenes)
    /\ stage = "player" =>
           /\ "back" \in Unwrap(composite).buttons => idx > 0
           /\ "next" \in Unwrap(composite).buttons => idx < Len(scenes)
           /\ "Skip cutscene" \in Unwrap(composite).buttons => idx < Len(scenes)

C17_Witness ==
    /\ stage = "player"
    /\ Len(scenes) = MaxScenes
    /\ clicked = Some("back")
    /\ resized
    /\ idx = 0
    /\ "back" \notin Unwrap(composite).buttons

\* C18: the task panel is terminal: while idx == scenes.len() the panel has
\* exactly the buttons 'quit' and 'Start', no event changes idx, and every
\* click ends the event with Transition::Pop.
C18_TaskPanelTerminal ==
    [][(stage = "player" /\ idx = Len(scenes)) =>
          /\ Unwrap(composite).buttons = {"quit", "Start"}
          /\ idx' = idx
          /\ clicked' # None => transition' = Some("Pop") /\ stage' = "popped"]_vars

C18_Witness ==
    /\ stage = "popped"
    /\ Len(scenes) = MaxScenes
    /\ idx = Len(scenes)
    /\ clicked = Some("Start")
    /\ transition = Some("Pop")

\* C19: every event of a CutscenePlayer returns Transition::Pop exactly when
\* the click was on 'quit' or 'Start' and Transition::Keep otherwise; 'back'
\* takes 1 from idx, 'next' adds 1, 'Skip cutscene' sets it to scenes.len(),
\* no click and a resize leave it; after an event that returned Keep the
\* panel on display is the one make_panel builds for the idx and the window
\* as they are now.
C19_EventTransitions ==
    [][stage = "player" =>
          /\ stage' # "panic"
          /\ transition' = IF clicked' \in {Some("quit"), Some("Start")}
                           THEN Some("Pop") ELSE Some("Keep")
          /\ idx' = CASE clicked' = Some("back") -> idx - 1
                      [] clicked' = Some("next") -> idx + 1
                      [] clicked' = Some("Skip cutscene") -> Len(scenes)
                      [] OTHER -> idx
          /\ transition' = Some("Keep") =>
                 /\ Unwrap(composite').idx = idx'
                 /\ composite' = Some(make_panel(scenes', idx', window'))]_vars

C19_Witness ==
    /\ stage = "player"
    /\ Len(scenes) = MaxScenes
    /\ clicked = Some("Skip cutscene")
    /\ resized
    /\ transition = Some("Keep")
    /\ idx = Len(scenes)
    /\ Unwrap(composite).inner = "task"

\* =================================================================== game
\* the longest line a screensaver bounces along, in steps of the canvas
MaxLine == 2

\* the most times the About screen is acknowledged by one Wizard
MaxAbout == 2

\* the maps there are to load
Maps == {"montlake", "23rd"}

\* the choices of the top-level menu, line 184
Choices ==
    {"Sandbox mode", "Load another map", "Edit map", "Tutorial",
     "Legacy mode (ignore this)", "About", "Quit"}

\* an event: a timer tick ("update"), a choice made in a menu, a key, or
\* anything else
Events ==
    {[kind |-> "choose", what |-> c] : c \in Choices} \cup
    {[kind |-> "pick", what |-> m] : m \in Maps} \cup
    {[kind |-> k, what |-> ""] : k \in {"update", "escape", "enter", "other"}}

\* Wizard::new(): at the first question, nothing acknowledged, not aborted
NewWizard == [at |-> "menu", acks |-> 0, alive |-> TRUE]

\* wizard.aborted()
aborted(w) == ~w.alive

\* Screensaver::start_bounce: a line of the length the rng gives, the canvas
\* centered on its start
start_bounce(len) == [line |-> len, at |-> 0]

\* Screensaver::update: on an update event the canvas moves to the distance d
\* the clock gives, or a new bounce starts when the line is used up
update(ss, ev, d, len) ==
    IF ev.kind = "update"
    THEN IF d < ss.line THEN [ss EXCEPT !.at = d] ELSE start_bounce(len)
    ELSE ss

\* a value of enum Mode: the variant, and the fields of SplashScreen
Mode(variant, w, ss) == [mode |-> variant, wizard |-> w, maybe_screensaver |-> ss]

\* what splash_screen leaves: the Option<Mode> it returned, the Wizard, the
\* screensaver, the map of the UI
Splash(r, w, ss, m) ==
    [ret |-> r, wizard |-> w, maybe_screensaver |-> ss, map |-> m, exit |-> FALSE]

\* splash_screen does not return: ui.before_quit and std::process::exit(0),
\* lines 234-237
Exit(w, ss, m) ==
    [ret |-> None, wizard |-> w, maybe_screensaver |-> ss, map |-> m, exit |-> TRUE]

\* line 206 giving the new SplashScreen no screensaver
load_map_aborted_drops(ss) == Mode("SplashScreen", Some(NewWizard), None)

\* line 206: Mode::SplashScreen(Wizard::new(), maybe_screensaver.take())
load_map_aborted(ss) == Mode("SplashScreen", Some(NewWizard), ss)

\* splash_screen, the top-level menu answered with a choice: lines 188-238
chosen(c, w, ss, m) ==
    CASE c = "Sandbox mode" -> Splash(Some(Mode("Sandbox", None, None)), w, ss, m)
      [] c = "Load another map" -> Splash(None, [w EXCEPT !.at = "load_map"], ss, m)
      [] c = "Edit map" -> Splash(Some(Mode("Edit", None, None)), w, ss, m)
      [] c = "Tutorial" -> Splash(Some(Mode("Tutorial", None, None)), w, ss, m)
      [] c = "Legacy mode (ignore this)" -> Splash(Some(Mode("Legacy", None, None)), w, ss, m)
      [] c = "About" -> Splash(None, [w EXCEPT !.at = "about"], ss, m)
      [] c = "Quit" -> Exit(w, ss, m)

\* the event after a question of the Wizard took it: nothing is left of it
Consumed == [kind |-> "other", what |-> ""]

\* wizard.wrap: the answers confirmed before, which the Wizard replays to the
\* questions in the order they are asked
RECURSIVE ready_results(_)
ready_results(w) ==
    IF w.acks > 0
    THEN <<"About", "ack">> \o ready_results([w EXCEPT !.acks = @ - 1])
    ELSE CASE w.at = "menu" -> <<>>
           [] w.at = "about" -> <<"About">>
           [] w.at = "load_map" -> <<"Load another map">>

\* acknowledged leaving the Wizard at the About screen
acknowledged_stays(w) == [w EXCEPT !.acks = @ + 1]

\* wizard.acknowledge answered: the Wizard is past the About screen
acknowledged(w) == [w EXCEPT !.at = "menu", !.acks = @ + 1]

\* lines 189-210: wizard.choose_something("Load which map?") handed the event
load_map_answer(w, ev, ss, m) ==
    IF ev.kind = "pick" /\ ev.what # m
    THEN Splash(Some(Mode("Sandbox", None, None)), [w EXCEPT !.at = "load_map"], ss, ev.what)
    ELSE IF ev.kind = "escape"
    THEN Splash(Some(load_map_aborted(ss)),
                [w EXCEPT !.at = "load_map", !.alive = FALSE], None, m)
    ELSE chosen("Load another map", w, ss, m)

\* what one call of splash_screen leaves, and the number of times it went
\* through its loop
Looped(res, n) ==
    [ret |-> res.ret, wizard |-> res.wizard, maybe_screensaver |-> res.maybe_screensaver,
     map |-> res.map, exit |-> res.exit, loops |-> n]

\* the loop of splash_screen, lines 180-240, in its n-th pass: ready are the
\* answers still to replay, ev is what is left of the event
RECURSIVE splash_loop(_, _, _, _, _, _)
splash_loop(ready, w, ev, ss, m, n) ==
    LET c == IF ready # <<>> THEN Some(Head(ready))
             ELSE IF ev.kind = "choose" THEN Some(ev.what)
             ELSE None
        rest == IF ready # <<>> THEN Tail(ready) ELSE <<>>
        left == IF ready # <<>> THEN ev ELSE Consumed
    IN  IF c = None
        THEN Looped(Splash(None,
                           IF ev.kind = "escape" THEN [w EXCEPT !.alive = FALSE] ELSE w,
                           ss, m), n)
        ELSE IF Unwrap(c) = "About"
        THEN IF rest # <<>>
             THEN splash_loop(Tail(rest), w, left, ss, m, n + 1)
             ELSE IF left.kind = "enter"
             THEN splash_loop(<<>>, acknowledged(w), Consumed, ss, m, n + 1)
             ELSE Looped(chosen("About", w, ss, m), n)
        ELSE IF Unwrap(c) = "Load another map"
        THEN Looped(load_map_answer(w, left, ss, m), n)
        ELSE Looped(chosen(Unwrap(c), w, ss, m), n)

\* splash_screen(raw_wizard, ctx, ui, maybe_screensaver): the Wizard replays
\* what was answered before and hands the event to the question it is at
splash_screen(w, ev, ss, m) == splash_loop(ready_results(w), w, ev, ss, m, 1)

\* ui.before_quit left out before the exit
quit_calls_exit_only == <<"exit">>

\* self.ui.before_quit(ctx.canvas); std::process::exit(0): lines 75-76, 235-236
quit_calls == <<"before_quit", "exit">>

\* what an event did: the arm of the match that handled it, the kind of the
\* event and what it chose, whether Screensaver::update was called, the
\* EventLoopMode returned, the passes through the loop of splash_screen
Handled(by, in, what, updated, returned, loops) ==
    [by |-> by, input |-> in, what |-> what, updated |-> updated,
     returned |-> returned, loops |-> loops]

\* the process runs: std::process::exit was not called
Running == calls = <<>>

\* GameState::new(flags, canvas, prerender)
GameInit ==
    /\ \E no_splash \in BOOLEAN, len \in 1..MaxLine :
          /\ mode = IF no_splash THEN "Legacy" ELSE "SplashScreen"
          /\ wizard = IF no_splash THEN None ELSE Some(NewWizard)
          /\ maybe_screensaver = IF no_splash THEN None ELSE Some(start_bounce(len))
          /\ handled = Handled("new", IF no_splash THEN "no_splash" ELSE "splash", "",
                               FALSE, "none", 0)
    /\ map \in Maps
    /\ calls = <<>>
    /\ NoCar
    /\ NoCutscene

\* GameState::event, Mode::SplashScreen: lines 66-79
event_SplashScreen ==
    /\ Running
    /\ mode = "SplashScreen"
    /\ \E ev \in Events, d \in 0..MaxLine, len \in 1..MaxLine :
          LET ss == IF IsSome(maybe_screensaver)
                    THEN Some(update(Unwrap(maybe_screensaver), ev, d, len))
                    ELSE None
              r == splash_screen(Unwrap(wizard), ev, ss, map)
          IN  /\ IsSome(maybe_screensaver) => d >= Unwrap(maybe_screensaver).at
              /\ r.wizard.acks <= MaxAbout
              /\ handled' = Handled("SplashScreen", ev.kind, ev.what,
                                    IsSome(maybe_screensaver),
                                    IF r.exit \/ (r.ret = None /\ aborted(r.wizard))
                                    THEN "none" ELSE "Animation",
                                    r.loops)
              /\ map' = r.map
              /\ IF r.exit
                 THEN /\ calls' = quit_calls
                      /\ wizard' = Some(r.wizard)
                      /\ maybe_screensaver' = r.maybe_screensaver
                      /\ UNCHANGED mode
                 ELSE IF r.ret # None
                 THEN /\ mode' = Unwrap(r.ret).mode
                      /\ wizard' = Unwrap(r.ret).wizard
                      /\ maybe_screensaver' = Unwrap(r.ret).maybe_screensaver
                      /\ UNCHANGED calls
                 ELSE /\ calls' = IF aborted(r.wizard) THEN quit_calls ELSE calls
                      /\ wizard' = Some(r.wizard)
                      /\ maybe_screensaver' = r.maybe_screensaver
                      /\ UNCHANGED mode
    /\ UNCHANGED <<car_vars, cutscene_vars>>

\* GameState::event, Mode::Legacy: lines 80-86; pause is what ui.new_event says
event_Legacy(pause) ==
    /\ Running
    /\ mode = "Legacy"
    /\ handled' = Handled("Legacy", IF pause THEN "pause" ELSE "other", "", FALSE, "ui", 0)
    /\ IF pause
       THEN /\ mode' = "SplashScreen"
            /\ wizard' = Some(NewWizard)
            /\ maybe_screensaver' = None
       ELSE UNCHANGED <<mode, wizard, maybe_screensaver>>
    /\ UNCHANGED <<map, calls>>
    /\ UNCHANGED <<car_vars, cutscene_vars>>

\* GameState::event, Mode::Edit, Mode::Tutorial and Mode::Sandbox: lines 87-89
\* hand the event to the mode, which stays or goes back to a SplashScreen; a
\* Screensaver can only be made inside game.rs, so it carries none
event_mode(leave) ==
    /\ Running
    /\ mode \in {"Edit", "Tutorial", "Sandbox"}
    /\ handled' = Handled(mode, IF leave THEN "quit" ELSE "other", "", FALSE, "mode", 0)
    /\ IF leave
       THEN /\ mode' = "SplashScreen"
            /\ wizard' = Some(NewWizard)
            /\ maybe_screensaver' = None
       ELSE UNCHANGED <<mode, wizard, maybe_screensaver>>
    /\ UNCHANGED <<map, calls>>
    /\ UNCHANGED <<car_vars, cutscene_vars>>

\* the top-level menu of the game that has Mode::ABTest offers it
choose_ABTest ==
    /\ Running
    /\ mode = "SplashScreen"
    /\ Unwrap(wizard).at = "menu"
    /\ handled' = Handled("SplashScreen", "choose", "A/B test", IsSome(maybe_screensaver),
                        "Animation", 1)
    /\ mode' = "ABTest"
    /\ wizard' = None
    /\ maybe_screensaver' = None
    /\ UNCHANGED <<map, calls>>
    /\ UNCHANGED <<car_vars, cutscene_vars>>

\* ABTestMode::event; quit is ctx.input.modal_action("quit")
ABTestMode_event(quit) ==
    /\ Running
    /\ mode = "ABTest"
    /\ handled' = Handled("ABTest", IF quit THEN "quit" ELSE "other", "", FALSE, "InputOnly", 0)
    /\ IF quit
       THEN /\ mode' = "SplashScreen"
            /\ wizard' = Some(NewWizard)
            /\ maybe_screensaver' = None
       ELSE UNCHANGED <<mode, wizard, maybe_screensaver>>
    /\ UNCHANGED <<map, calls>>
    /\ UNCHANGED <<car_vars, cutscene_vars>>

GameNext ==
    \/ event_SplashScreen
    \/ \E pause \in BOOLEAN : event_Legacy(pause)
    \/ \E leave \in BOOLEAN : event_mode(leave)
    \/ choose_ABTest
    \/ \E quit \in BOOLEAN : ABTestMode_event(quit)

GameSpec == GameInit /\ [][GameNext]_vars

\* C20: GameState::new gives a SplashScreen with a screensaver when no_splash
\* is unset and Legacy when it is set; a SplashScreen entered from Legacy on
\* pause or from the A/B test mode on 'quit' has no screensaver; aborting
\* 'Load which map?' moves the screensaver of the SplashScreen, present or
\* not, into the new SplashScreen; so a SplashScreen with a screensaver only
\* ever follows a SplashScreen with a screensaver (once another mode was
\* entered, no later SplashScreen has one), and Screensaver::update is called
\* only in a SplashScreen that has one.
C20_ScreensaverProvenance ==
    /\ [](handled.by = "new" =>
             IF handled.input = "splash"
             THEN mode = "SplashScreen" /\ IsSome(maybe_screensaver)
             ELSE mode = "Legacy" /\ maybe_screensaver = None)
    /\ [][/\ (handled'.by \in {"Legacy", "ABTest"} /\ mode' = "SplashScreen")
             => maybe_screensaver' = None
          /\ (/\ mode = "SplashScreen"
              /\ Unwrap(wizard).at = "load_map"
              /\ handled'.by = "SplashScreen"
              /\ handled'.input = "escape")
             => /\ mode' = "SplashScreen"
                /\ maybe_screensaver' = maybe_screensaver
                /\ wizard' = Some([at |-> "menu", acks |-> 0, alive |-> TRUE])
          /\ (mode' = "SplashScreen" /\ IsSome(maybe_screensaver'))
             => (mode = "SplashScreen" /\ IsSome(maybe_screensaver))
          /\ handled'.updated
             => (mode = "SplashScreen" /\ IsSome(maybe_screensaver))]_vars

C20_Witness ==
    /\ mode = "SplashScreen"
    /\ handled.by = "SplashScreen"
    /\ handled.input = "escape"
    /\ handled.updated
    /\ calls = <<>>
    /\ IsSome(maybe_screensaver)
    /\ Unwrap(maybe_screensaver).at > 0
    /\ Unwrap(wizard).acks = 0

\* an event handled by the SplashScreen arm of GameState::event
SplashStep == mode = "SplashScreen" /\ calls = <<>> /\ handled'.by = "SplashScreen"

\* C21: in SplashScreen mode the process is left only by choosing 'Quit' in
\* the top-level menu or by aborting that menu, and then ui.before_quit is
\* called before the exit; aborting 'Load which map?' never leaves the process
\* and replaces the mode by a SplashScreen with a fresh Wizard; an event that
\* chooses nothing and aborts nothing leaves the mode as it is; every event
\* handled in SplashScreen mode that returns, returns EventLoopMode::Animation.
C21_QuitAndAbort ==
    [][SplashStep =>
          /\ calls' # <<>> <=>
                 /\ Unwrap(wizard).at = "menu"
                 /\ \/ handled'.input = "choose" /\ handled'.what = "Quit"
                    \/ handled'.input = "escape"
          /\ calls' # <<>> =>
                 /\ calls' = <<"before_quit", "exit">>
                 /\ handled'.returned = "none"
          /\ (Unwrap(wizard).at = "load_map" /\ handled'.input = "escape") =>
                 /\ calls' = <<>>
                 /\ mode' = "SplashScreen"
                 /\ wizard' = Some([at |-> "menu", acks |-> 0, alive |-> TRUE])
          /\ handled'.input \in {"update", "enter", "other"} =>
                 mode' = mode /\ calls' = <<>>
          /\ calls' = <<>> => handled'.returned = "Animation"]_vars

C21_Witness ==
    /\ mode = "SplashScreen"
    /\ handled.by = "SplashScreen"
    /\ handled.input = "escape"
    /\ Unwrap(wizard).acks = MaxAbout
    /\ Unwrap(wizard).at = "menu"
    /\ ~Unwrap(wizard).alive
    /\ calls = <<"before_quit", "exit">>

\* C22: choosing 'About' never changes the mode; while the About screen is
\* not acknowledged splash_screen returns no new mode and the Wizard stays at
\* it; once it is acknowledged the top-level menu is offered again, and this
\* can be done again and again; every call of splash_screen returns, after
\* at most one pass through its loop for every acknowledgement so far and
\* two more.
C22_AboutLoops ==
    [][SplashStep =>
          /\ (/\ Unwrap(wizard).at = "menu"
              /\ handled'.input = "choose"
              /\ handled'.what = "About") =>
                 /\ mode' = "SplashScreen"
                 /\ calls' = <<>>
                 /\ maybe_screensaver' = maybe_screensaver
                 /\ Unwrap(wizard').at = "about"
                 /\ Unwrap(wizard').acks = Unwrap(wizard).acks
          /\ (Unwrap(wizard).at = "about" /\ handled'.input # "enter") =>
                 /\ mode' = "SplashScreen"
                 /\ calls' = <<>>
                 /\ wizard' = wizard
          /\ (Unwrap(wizard).at = "about" /\ handled'.input = "enter") =>
                 /\ mode' = "SplashScreen"
                 /\ calls' = <<>>
                 /\ wizard' = Some([at |-> "menu", acks |-> Unwrap(wizard).acks + 1,
                                    alive |-> TRUE])
          /\ 1 <= handled'.loops
          /\ handled'.loops <= Unwrap(wizard).acks + 2]_vars

C22_Witness ==
    /\ mode = "SplashScreen"
    /\ handled.by = "SplashScreen"
    /\ handled.input = "enter"
    /\ handled.loops = MaxAbout + 1
    /\ Unwrap(wizard).at = "menu"
    /\ Unwrap(wizard).acks = MaxAbout
    /\ calls = <<>>

====
